---- MODULE Spec2Model ----
(***************************************************************************)
(* The notebook 3_Training_Neural_Networks.ipynb as a state machine, one   *)
(* statement per step: the code cells from "Loss and Autograd together"    *)
(* (In[12]) to the prediction cell (In[16]) run top to bottom (Spec); the  *)
(* whole notebook from In[2] on a loader of one batch (NotebookSpec); the  *)
(* training and prediction cells on a fresh kernel (TrainingSpec, and      *)
(* FairTrainingSpec with the interpreter's scheduling); the training loop  *)
(* on a loader of one fixed batch (FixedBatchSpec); and the calls of the   *)
(* training step made in any order (CallSpec).                             *)
(*                                                                         *)
(* The tensor library is outside the repository.  The calls the cells make *)
(* on parameters (forward, criterion, loss.backward(), optimizer           *)
(* zero_grad() and step()) are modelled on a one-layer least-squares       *)
(* network with the parameters model[0].weight and model[0].bias, a batch  *)
(* being one pair (x, y), and the loss the notebook's mean squared loss    *)
(* 1/(2n) sum (y - y^)^2 with n = 1.  Numbers are fixed point: parameters, *)
(* targets and gradients in thousandths, losses in half millionths.        *)
(***************************************************************************)
EXTENDS Integers, Sequences, FiniteSets, TLC

\* ------------------------------------------------------------- bounds
\* len(trainloader): the number of batches the loader yields per epoch.
NumBatches == 2
\* The calls a free caller makes in one run of the call-order specification.
MaxCalls == 9

\* ---------------------------------------------------- program constants
\* epochs = 5
epochs == 5
\* optim.SGD(model.parameters(), lr=0.01), in thousandths
LrDemo == 10
\* optim.SGD(model.parameters(), lr=0.003), in thousandths
LrTrain == 3
\* the unit of the fixed-point numbers: 1.0 is Scale
Scale == 10 * 10 * 10

\* ------------------------------------------------------------ the data
\* A batch (images, labels) reduced to one input and one target.
Batch(a, b) == [x |-> a, y |-> b]

\* trainset, cut into the batches of one epoch: batch i of the loader.
\* Inputs are normalised to about [-1, 1] per pixel, so a batch's input has
\* a small norm here; targets differ between batches.
trainset == [i \in 1..NumBatches |-> Batch(1 + (i % 2), Scale * (2 * i - 3))]

\* A steep batch: its input is large against the learning rate
\* (lr * (x^2 + 1) > 2), still a convex least-squares surface.
SteepBatch == Batch(26, 0)

\* The one-batch datasets of the fixed-batch runs.
FixedBatches ==
  {Batch(1, 2 * Scale), Batch(2, -Scale), Batch(17, Scale), Batch(25, Scale),
   SteepBatch}

\* The model objects the notebook builds, named by the cell that builds them.
ModelIds == {"m2", "m4", "m12", "m15"}

\* nn.Linear's random initial parameters: the values a fresh model may hold.
InitWeights == {[weight |-> 500, bias |-> 0], [weight |-> -300, bias |-> 200]}

\* A gradient accumulator: None, or a tensor of the parameter's shape.
NoGrad == [none |-> TRUE, weight |-> 0, bias |-> 0]
ZeroTensor == [none |-> FALSE, weight |-> 0, bias |-> 0]
NoParams == [weight |-> 0, bias |-> 0]
NoBatch == Batch(0, 0)
NoOutput == [model |-> "none", kind |-> "none", x |-> 0, val |-> 0, graph |-> FALSE]
NoLoss == [model |-> "none", criterion |-> "none", input |-> "none", x |-> 0,
           err |-> 0, val |-> 0, graph |-> FALSE]
NoOptimizer == [model |-> "none", lr |-> 0]

\* torch.randn(2,2): some 2x2 tensors, row by row, in thousandths.
Tensors == {<<1000, -500, 3, 0>>, <<-1234, 777, 2000, -1>>, <<337, 1052, -2345, 86>>}
\* An unbound tensor name.
NoTensor == [val |-> <<>>, none |-> TRUE, grad |-> <<>>, numel |-> 0, graph |-> FALSE]

\* --------------------------------------------------------------- state
VARIABLES
  pc,            \* [cell, i]: the statement about to run
  dataset,       \* what trainloader yields in one epoch: a sequence of batches
  params,        \* params[m]: the parameter values of model object m
  grad,          \* grad[m]: the .grad of the parameters of model object m
  built,         \* the model objects constructed so far
  model,         \* the object bound to the name `model`
  optimizer,     \* the object bound to `optimizer`: [model, lr]
  batch,         \* images, labels
  batchId,       \* the index in the epoch's dataset of (images, labels)
  output,        \* output / logits, with its graph
  loss,          \* loss, with its graph
  e,             \* the epoch counter of the training loop
  dataiter,      \* the loop's iterator over trainloader: the batches not yet yielded
  running_loss,
  printed,       \* stdout: the "Training loss" lines
  hist,          \* ghost: the operations run since (images, labels) was bound
  pending,       \* ghost: pending[m]: the gradients the backward passes since
                 \*   m's last clear (or its construction) computed, in order
  cnt,           \* ghost: cnt[b][op]: runs of op on batch b in this epoch
  nsteps,        \* ghost: optimizer.step() calls of the training loop
  prevLoss,      \* ghost: the loss of the previous training pass, -1 if none
  raised,        \* the exception that stopped the run, "none" if none
  ncalls,        \* the calls a free caller has made (the call-order runs)
  criterion,     \* the loss function bound to `criterion`
  x,             \* the tensor x of the autograd cells: [val, none, grad]
  y,             \* y = x**2: [val, graph]
  z,             \* z = y.mean(): [val, numel, graph]
  logps,         \* the log-probabilities of the prediction cell
  touched,       \* ghost: the objects a backward pass has deposited into
  epochLosses    \* ghost: the losses computed in the running epoch, in order

vars == <<pc, dataset, params, grad, built, model, optimizer, batch, batchId,
          output, loss, e, dataiter, running_loss, printed, hist, pending,
          cnt, nsteps, prevLoss, raised, ncalls, criterion, x, y, z, logps,
          touched, epochLosses>>

\* ------------------------------------------------------ the code cells
\* The cells in notebook order.
Cells == <<"In2", "In4", "In5", "In6", "In8", "In10", "In12", "In13", "In14",
           "step", "update", "In15", "In16">>

\* In[2]: model = nn.Sequential(...); criterion = nn.CrossEntropyLoss();
\* images, labels = next(dataiter); logits = model(images);
\* loss = criterion(logits, labels)
CellIn2 == <<"build_model", "make_criterion", "next_batch", "forward", "criterion">>

\* In[4]: the same with nn.LogSoftmax(dim=1) as last layer and nn.NLLLoss()
CellIn4 == <<"build_model", "make_criterion", "next_batch", "forward", "criterion">>

\* In[5]: x = torch.randn(2,2, requires_grad=True)
CellIn5 == <<"randn">>

\* In[6]: y = x**2
CellIn6 == <<"pow">>

\* In[8]: z = y.mean()
CellIn8 == <<"mean">>

\* In[10]: z.backward()
CellIn10 == <<"z_backward">>

\* In[12]: model = nn.Sequential(...); criterion = nn.NLLLoss();
\* images, labels = next(dataiter); logits = model(images);
\* loss = criterion(logits, labels)
CellIn12 == <<"build_model", "make_criterion", "next_batch", "forward", "criterion">>

\* In[13]: loss.backward()
CellIn13 == <<"backward">>

\* In[14]: optimizer = optim.SGD(model.parameters(), lr=0.01)
CellIn14 == <<"make_optimizer">>

\* The single training step without its optimizer.zero_grad().
CellStepNoClear == <<"next_batch", "forward", "criterion", "backward">>

\* The single training step: next(dataiter); optimizer.zero_grad();
\* output = model(images); loss = criterion(output, labels); loss.backward()
CellStep == <<"next_batch", "zero_grad", "forward", "criterion", "backward">>

\* The update step: optimizer.step()
CellUpdate == <<"optimizer_step">>

\* The training pass without its gradient clear.
TrainingPassNoClear == <<"forward", "criterion", "backward", "optimizer_step">>

\* The training pass with the update ahead of the backward pass.
TrainingPassStepFirst ==
  <<"zero_grad", "forward", "criterion", "optimizer_step", "backward">>

\* The training pass of the loop body, in the order of its lines.
TrainingPass == <<"zero_grad", "forward", "criterion", "backward", "optimizer_step">>

\* In[15]: the model, the criterion, the optimizer, and the two nested loops.
CellIn15 == <<"build_model", "make_criterion", "make_optimizer", "for_epoch",
              "reset_running_loss", "iter_trainloader", "for_batch">>
            \o TrainingPass \o <<"add_running_loss", "print_loss">>

\* The training loop alone (from `for e in range(epochs)`), for runs on a
\* given model, optimizer and loader.
CellLoop == <<"for_epoch", "reset_running_loss", "iter_trainloader", "for_batch">>
            \o TrainingPass \o <<"add_running_loss", "print_loss">>

\* A prediction cell that runs one more training step on its batch.
CellIn16Trains == <<"next_batch", "zero_grad", "forward", "criterion", "backward",
                    "optimizer_step">>

\* In[16]: dataiter = iter(trainloader); images, labels = next(dataiter);
\* with torch.no_grad(): logps = model(img)
CellIn16 == <<"next_batch", "predict">>

\* The calls of the single training step, for a caller free to order them.
Calls == <<"next_batch", "zero_grad", "forward", "criterion", "backward",
           "optimizer_step">>

Code(cell) ==
  CASE cell = "In2"    -> CellIn2
    [] cell = "In4"    -> CellIn4
    [] cell = "In5"    -> CellIn5
    [] cell = "In6"    -> CellIn6
    [] cell = "In8"    -> CellIn8
    [] cell = "In10"   -> CellIn10
    [] cell = "In12"   -> CellIn12
    [] cell = "In13"   -> CellIn13
    [] cell = "In14"   -> CellIn14
    [] cell = "step"   -> CellStep
    [] cell = "update" -> CellUpdate
    [] cell = "In15"   -> CellIn15
    [] cell = "In16"   -> CellIn16
    [] cell = "loop"   -> CellLoop
    [] cell = "calls"  -> Calls
    [] OTHER           -> <<>>

\* The position of statement s in a cell.
IndexOf(cell, s) == CHOOSE i \in 1..Len(Code(cell)) : Code(cell)[i] = s

\* The cell run after `cell`; "done" after the last one.
NextCell(cell) ==
  IF \E i \in 1..(Len(Cells) - 1) : Cells[i] = cell
  THEN Cells[(CHOOSE i \in 1..(Len(Cells) - 1) : Cells[i] = cell) + 1]
  ELSE "done"

Done == [cell |-> "done", i |-> 0]

\* The statement about to run.
Stmt == IF pc.cell = "done" \/ pc.i = 0 THEN "none" ELSE Code(pc.cell)[pc.i]

\* Falling through to the next statement, or to the next cell's first.
Fall ==
  IF pc.cell = "calls" THEN [cell |-> "calls", i |-> 0]
  ELSE IF pc.i < Len(Code(pc.cell))
  THEN [cell |-> pc.cell, i |-> pc.i + 1]
  ELSE IF NextCell(pc.cell) = "done" THEN Done
       ELSE [cell |-> NextCell(pc.cell), i |-> 1]

\* A jump inside the running cell.
Goto(s) == [cell |-> pc.cell, i |-> IndexOf(pc.cell, s)]

\* Leaving the running cell.
Leave == IF NextCell(pc.cell) = "done" THEN Done
         ELSE [cell |-> NextCell(pc.cell), i |-> 1]

\* ---------------------------------------------- the tensor library calls
\* Rounding to the nearest representable number (half away from zero).
RoundDiv(a, d) ==
  IF a >= 0 THEN (2 * a + d) \div (2 * d) ELSE -((2 * (-a) + d) \div (2 * d))

\* model(images): the forward pass of the layer.
Linear(p, a) == p.weight * a + p.bias

\* criterion(output, labels): the scalar loss (y - y^)^2 / 2 of the error
\* y^ - y, in half units.
Criterion(err) == err * err

\* The chain rule through criterion and layer: d loss / d weight, d loss / d bias.
Gradient(err, a) == [weight |-> err * a, bias |-> err]

\* A backward pass that overwrites .grad with the newest gradient.
Overwrite(g, d) == [none |-> FALSE, weight |-> d.weight, bias |-> d.bias]

\* A backward pass that deposits nothing.
Dropped(g, d) == g

\* loss.backward() deposits into .grad: an empty .grad takes the gradient, a
\* tensor has it added ("the gradients are accumulated").
Accumulate(g, d) ==
  IF g.none THEN [none |-> FALSE, weight |-> d.weight, bias |-> d.bias]
  ELSE [none |-> FALSE, weight |-> g.weight + d.weight, bias |-> g.bias + d.bias]

\* x**2, element by element.
Square(t) == [i \in 1..Len(t) |-> RoundDiv(t[i] * t[i], Scale)]

RECURSIVE SumOf(_)
SumOf(t) == IF t = <<>> THEN 0 ELSE Head(t) + SumOf(Tail(t))

\* y.mean(): the sum of the elements over their number.
Mean(t) == RoundDiv(SumOf(t), Len(t))

\* The backward function of mean: each of the numel elements takes the
\* fraction 1/numel of the incoming gradient 1.
MeanBackward(numel) == [num |-> 1, den |-> numel]

\* A backward function of x**2 without the factor 2.
PowBackwardLinear(t, up) == [i \in 1..Len(t) |-> RoundDiv(t[i] * up.num, up.den)]

\* The backward function of x**2: 2 * x times the incoming gradient.
PowBackward(t, up) == [i \in 1..Len(t) |-> RoundDiv(2 * t[i] * up.num, up.den)]

\* z.backward() deposits into x.grad: an empty .grad takes the gradient, a
\* tensor has it added.
AccumulateTensor(t, d) ==
  IF t.none THEN [t EXCEPT !.none = FALSE, !.grad = d]
  ELSE [t EXCEPT !.grad = [i \in 1..Len(d) |-> t.grad[i] + d[i]]]

\* A zero_grad() that leaves .grad as it is.
ZeroGradKeeps(g) == {g}

\* A zero_grad() that makes a zero tensor of an empty .grad too.
ZeroGradFills(g) == {NoGrad, ZeroTensor}

\* optimizer.zero_grad(): .grad becomes None or a zero tensor, as the
\* library's set_to_none default has it; an empty .grad stays empty.
ZeroGradOf(g) == IF g.none THEN {NoGrad} ELSE {NoGrad, ZeroTensor}

\* A step that moves up the gradient.
SGDAscent(p, g, lr) ==
  IF g.none THEN p
  ELSE [weight |-> p.weight + RoundDiv(lr * g.weight, Scale),
        bias   |-> p.bias + RoundDiv(lr * g.bias, Scale)]

\* optimizer.step() of optim.SGD on one parameter group: p - lr * p.grad; a
\* parameter whose .grad is None is skipped.
SGD(p, g, lr) ==
  IF g.none THEN p
  ELSE [weight |-> p.weight - RoundDiv(lr * g.weight, Scale),
        bias   |-> p.bias - RoundDiv(lr * g.bias, Scale)]

\* A loader that samples with replacement.
DrawAny(rest) == 1..Len(dataset)

\* A shuffling loader's next batch: any one of those it has not yet yielded
\* in this epoch (RandomSampler draws without replacement).
DrawFrom(rest) == rest

\* nn.Sequential(...) in a cell: the fresh model object's name.
NewModel(cell) ==
  CASE cell = "In2"  -> "m2"
    [] cell = "In4"  -> "m4"
    [] cell = "In12" -> "m12"
    [] OTHER         -> "m15"

\* The last layer of each model: nn.Linear(64, 10) in In[2], nn.LogSoftmax(dim=1)
\* in In[4], In[12] and In[15].
LastLayer(m) == IF m = "m2" THEN "Linear" ELSE "LogSoftmax"

\* What a model's forward pass returns: raw scores, or their log-softmax.
OutputKind(m) == IF LastLayer(m) = "LogSoftmax" THEN "log_probabilities" ELSE "logits"

\* Every cell constructing nn.CrossEntropyLoss().
NewCriterionCrossEntropy(cell) == "CrossEntropyLoss"

\* criterion = nn.CrossEntropyLoss() in In[2], nn.NLLLoss() in the other cells.
NewCriterion(cell) == IF cell = "In2" THEN "CrossEntropyLoss" ELSE "NLLLoss"

\* Every optimizer built with the learning rate of In[14].
NewOptimizerDemoLr(cell) == [model |-> model, lr |-> LrDemo]

\* The training cell keeping the optimizer of In[14].
NewOptimizerStale(cell) ==
  IF cell = "In14" THEN [model |-> model, lr |-> LrDemo] ELSE optimizer

\* optim.SGD(model.parameters(), lr=...) in a cell.
NewOptimizer(cell) ==
  [model |-> model, lr |-> IF cell = "In14" THEN LrDemo ELSE LrTrain]

\* ------------------------------------------------------------- ghosts
Ops == {"zero_grad", "forward", "criterion", "backward", "optimizer_step"}
InLoop == pc.cell \in {"In15", "loop"}
NoCount == [b \in 1..Len(dataset) |-> [op \in Ops |-> 0]]
\* The step history is kept for the cells' runs, not for a free caller's.
Log(op) == IF pc.cell = "calls" THEN hist ELSE Append(hist, op)
Count(op) ==
  IF InLoop THEN [cnt EXCEPT ![batchId][op] = @ + 1] ELSE cnt

\* -------------------------------------------------------------- actions
\* model = nn.Sequential(...)
BuildModel ==
  /\ Stmt = "build_model"
  /\ UNCHANGED <<criterion, x, y, z, logps, touched, epochLosses>>
  /\ \E w \in InitWeights :
       params' = [params EXCEPT ![NewModel(pc.cell)] = w]
  /\ grad' = [grad EXCEPT ![NewModel(pc.cell)] = NoGrad]
  /\ built' = built \cup {NewModel(pc.cell)}
  /\ model' = NewModel(pc.cell)
  /\ pending' = [pending EXCEPT ![NewModel(pc.cell)] = <<>>]
  /\ pc' = Fall
  /\ UNCHANGED <<dataset, optimizer, batch, batchId, output, loss, e, dataiter,
                 running_loss, printed, hist, cnt, nsteps, prevLoss, raised,
                 ncalls>>

\* optimizer = optim.SGD(model.parameters(), lr=...)
MakeOptimizer ==
  /\ Stmt = "make_optimizer"
  /\ UNCHANGED <<criterion, x, y, z, logps, touched, epochLosses>>
  /\ optimizer' = NewOptimizer(pc.cell)
  /\ pc' = Fall
  /\ UNCHANGED <<dataset, params, grad, built, model, batch, batchId, output,
                 loss, e, dataiter, running_loss, printed, hist, pending, cnt,
                 nsteps, prevLoss, raised, ncalls>>

\* dataiter = iter(trainloader); images, labels = next(dataiter)
NextBatch ==
  /\ Stmt = "next_batch"
  /\ UNCHANGED <<criterion, x, y, z, logps, touched, epochLosses>>
  /\ \E i \in DrawFrom(1..Len(dataset)) :
       /\ batch' = dataset[i]
       /\ batchId' = i
  /\ hist' = <<>>
  /\ pc' = Fall
  /\ UNCHANGED <<dataset, params, grad, built, model, optimizer, output, loss,
                 e, dataiter, running_loss, printed, pending, cnt, nsteps,
                 prevLoss, raised, ncalls>>

\* output = model(images)
Forward ==
  /\ Stmt = "forward"
  /\ UNCHANGED <<criterion, x, y, z, logps, touched, epochLosses>>
  /\ output' = [model |-> model, kind |-> OutputKind(model), x |-> batch.x,
                val |-> Linear(params[model], batch.x), graph |-> TRUE]
  /\ hist' = Log("forward")
  /\ cnt' = Count("forward")
  /\ pc' = Fall
  /\ UNCHANGED <<dataset, params, grad, built, model, optimizer, batch,
                 batchId, loss, e, dataiter, running_loss, printed, pending,
                 nsteps, prevLoss, raised, ncalls>>

\* loss = criterion(output, labels)
ComputeLoss ==
  /\ Stmt = "criterion"
  /\ UNCHANGED <<criterion, x, y, z, logps, touched>>
  /\ loss' = [model |-> output.model, criterion |-> criterion,
              input |-> output.kind, x |-> output.x, err |-> output.val - batch.y,
              val |-> Criterion(output.val - batch.y), graph |-> output.graph]
  /\ epochLosses' = IF InLoop
                    THEN Append(epochLosses, Criterion(output.val - batch.y))
                    ELSE epochLosses
  /\ hist' = Log("criterion")
  /\ cnt' = Count("criterion")
  /\ pc' = Fall
  /\ UNCHANGED <<dataset, params, grad, built, model, optimizer, batch,
                 batchId, output, e, dataiter, running_loss, printed, pending,
                 nsteps, prevLoss, raised, ncalls>>

\* loss.backward(): deposits the gradient and frees the graph of the loss; on
\* a loss whose graph is freed it raises RuntimeError.
Backward ==
  /\ Stmt = "backward"
  /\ UNCHANGED <<criterion, x, y, z, logps, epochLosses>>
  /\ IF loss.graph
     THEN /\ grad' = [grad EXCEPT ![loss.model] =
                        Accumulate(@, Gradient(loss.err, loss.x))]
          /\ loss' = [loss EXCEPT !.graph = FALSE]
          /\ output' = [output EXCEPT !.graph = FALSE]
          /\ pending' = [pending EXCEPT ![loss.model] =
                           Append(@, Gradient(loss.err, loss.x))]
          /\ hist' = Log("backward")
          /\ cnt' = Count("backward")
          /\ touched' = touched \cup {loss.model}
          /\ pc' = Fall
          /\ UNCHANGED raised
     ELSE /\ raised' = "RuntimeError"
          /\ pc' = Done
          /\ UNCHANGED <<grad, loss, output, pending, hist, cnt, touched>>
  /\ UNCHANGED <<dataset, params, built, model, optimizer, batch, batchId, e,
                 dataiter, running_loss, printed, nsteps, prevLoss, ncalls>>

\* optimizer.zero_grad()
ZeroGrad ==
  /\ Stmt = "zero_grad"
  /\ UNCHANGED <<criterion, x, y, z, logps, touched, epochLosses>>
  /\ \E g0 \in ZeroGradOf(grad[optimizer.model]) :
       grad' = [grad EXCEPT ![optimizer.model] = g0]
  /\ pending' = [pending EXCEPT ![optimizer.model] = <<>>]
  /\ hist' = Log("zero_grad")
  /\ cnt' = Count("zero_grad")
  /\ pc' = Fall
  /\ UNCHANGED <<dataset, params, built, model, optimizer, batch, batchId,
                 output, loss, e, dataiter, running_loss, printed, nsteps,
                 prevLoss, raised, ncalls>>

\* An optimizer.step() that clears the gradients it has used.
OptimizerStepClears ==
  /\ Stmt = "optimizer_step"
  /\ UNCHANGED <<criterion, x, y, z, logps, touched, epochLosses>>
  /\ params' = [params EXCEPT ![optimizer.model] =
                  SGD(@, grad[optimizer.model], optimizer.lr)]
  /\ grad' = [grad EXCEPT ![optimizer.model] = NoGrad]
  /\ hist' = Log("optimizer_step")
  /\ cnt' = Count("optimizer_step")
  /\ nsteps' = IF InLoop THEN nsteps + 1 ELSE nsteps
  /\ pc' = Fall
  /\ UNCHANGED <<dataset, built, model, optimizer, batch, batchId,
                 output, loss, e, dataiter, running_loss, printed, pending,
                 prevLoss, raised, ncalls>>

\* optimizer.step()
OptimizerStep ==
  /\ Stmt = "optimizer_step"
  /\ UNCHANGED <<criterion, x, y, z, logps, touched, epochLosses>>
  /\ params' = [params EXCEPT ![optimizer.model] =
                  SGD(@, grad[optimizer.model], optimizer.lr)]
  /\ hist' = Log("optimizer_step")
  /\ cnt' = Count("optimizer_step")
  /\ nsteps' = IF InLoop THEN nsteps + 1 ELSE nsteps
  /\ pc' = Fall
  /\ UNCHANGED <<dataset, grad, built, model, optimizer, batch, batchId,
                 output, loss, e, dataiter, running_loss, printed, pending,
                 prevLoss, raised, ncalls>>

\* for e in range(epochs):
ForEpoch ==
  /\ Stmt = "for_epoch"
  /\ UNCHANGED <<criterion, x, y, z, logps, touched>>
  /\ IF e < epochs
     THEN /\ e' = e + 1
          /\ epochLosses' = <<>>
          /\ pc' = Fall
     ELSE /\ e' = e
          /\ epochLosses' = epochLosses
          /\ pc' = Leave
  /\ UNCHANGED <<dataset, params, grad, built, model, optimizer, batch,
                 batchId, output, loss, dataiter, running_loss, printed, hist,
                 pending, cnt, nsteps, prevLoss, raised, ncalls>>

\* An epoch that starts without resetting running_loss.
ResetRunningLossSkipped ==
  /\ Stmt = "reset_running_loss"
  /\ pc' = Fall
  /\ UNCHANGED <<dataset, params, grad, built, model, optimizer, batch,
                 batchId, output, loss, e, dataiter, running_loss, printed,
                 hist, pending, cnt, nsteps, prevLoss, raised, ncalls,
                 criterion, x, y, z, logps, touched, epochLosses>>

\* running_loss = 0
ResetRunningLoss ==
  /\ Stmt = "reset_running_loss"
  /\ UNCHANGED <<criterion, x, y, z, logps, touched, epochLosses>>
  /\ running_loss' = 0
  /\ pc' = Fall
  /\ UNCHANGED <<dataset, params, grad, built, model, optimizer, batch,
                 batchId, output, loss, e, dataiter, printed, hist, pending,
                 cnt, nsteps, prevLoss, raised, ncalls>>

\* for images, labels in trainloader: the iterator, made once per epoch
IterTrainloader ==
  /\ Stmt = "iter_trainloader"
  /\ UNCHANGED <<criterion, x, y, z, logps, touched, epochLosses>>
  /\ dataiter' = 1..Len(dataset)
  /\ cnt' = NoCount
  /\ pc' = Fall
  /\ UNCHANGED <<dataset, params, grad, built, model, optimizer, batch,
                 batchId, output, loss, e, running_loss, printed, hist,
                 pending, nsteps, prevLoss, raised, ncalls>>

\* An inner loop whose exhaustion skips the else branch.
ForBatchNoElse ==
  /\ Stmt = "for_batch"
  /\ UNCHANGED <<criterion, x, y, z, logps, touched, epochLosses>>
  /\ IF dataiter # {}
     THEN /\ \E i \in DrawFrom(dataiter) :
               /\ batch' = dataset[i]
               /\ batchId' = i
               /\ dataiter' = dataiter \ {i}
          /\ hist' = <<>>
          /\ pc' = Fall
     ELSE /\ UNCHANGED <<batch, batchId, dataiter, hist>>
          /\ pc' = Goto("for_epoch")
  /\ UNCHANGED <<dataset, params, grad, built, model, optimizer, output, loss,
                 e, running_loss, printed, pending, cnt, nsteps, prevLoss,
                 raised, ncalls>>

\* for images, labels in trainloader: the next batch, or the else branch
ForBatch ==
  /\ Stmt = "for_batch"
  /\ UNCHANGED <<criterion, x, y, z, logps, touched, epochLosses>>
  /\ IF dataiter # {}
     THEN /\ \E i \in DrawFrom(dataiter) :
               /\ batch' = dataset[i]
               /\ batchId' = i
               /\ dataiter' = dataiter \ {i}
          /\ hist' = <<>>
          /\ pc' = Fall
     ELSE /\ UNCHANGED <<batch, batchId, dataiter, hist>>
          /\ pc' = Goto("print_loss")
  /\ UNCHANGED <<dataset, params, grad, built, model, optimizer, output, loss,
                 e, running_loss, printed, pending, cnt, nsteps, prevLoss,
                 raised, ncalls>>

\* running_loss += loss.item()
AddRunningLoss ==
  /\ Stmt = "add_running_loss"
  /\ UNCHANGED <<criterion, x, y, z, logps, touched, epochLosses>>
  /\ running_loss' = running_loss + loss.val
  /\ prevLoss' = loss.val
  /\ pc' = Goto("for_batch")
  /\ UNCHANGED <<dataset, params, grad, built, model, optimizer, batch,
                 batchId, output, loss, e, dataiter, printed, hist, pending,
                 cnt, nsteps, raised, ncalls>>

\* else: print(f"Training loss: {running_loss/len(trainloader)}")
PrintLoss ==
  /\ Stmt = "print_loss"
  /\ UNCHANGED <<criterion, x, y, z, logps, touched, epochLosses>>
  /\ printed' = Append(printed, [sum |-> running_loss, n |-> Len(dataset)])
  /\ pc' = Goto("for_epoch")
  /\ UNCHANGED <<dataset, params, grad, built, model, optimizer, batch,
                 batchId, output, loss, e, dataiter, running_loss, hist,
                 pending, cnt, nsteps, prevLoss, raised, ncalls>>

\* criterion = nn.CrossEntropyLoss() / nn.NLLLoss()
MakeCriterion ==
  /\ Stmt = "make_criterion"
  /\ criterion' = NewCriterion(pc.cell)
  /\ pc' = Fall
  /\ UNCHANGED <<dataset, params, grad, built, model, optimizer, batch,
                 batchId, output, loss, e, dataiter, running_loss, printed,
                 hist, pending, cnt, nsteps, prevLoss, raised, ncalls, x, y, z,
                 logps, touched, epochLosses>>

\* x = torch.randn(2,2, requires_grad=True)
Randn ==
  /\ Stmt = "randn"
  /\ \E t \in Tensors : x' = [NoTensor EXCEPT !.val = t]
  /\ pc' = Fall
  /\ UNCHANGED <<dataset, params, grad, built, model, optimizer, batch,
                 batchId, output, loss, e, dataiter, running_loss, printed,
                 hist, pending, cnt, nsteps, prevLoss, raised, ncalls,
                 criterion, y, z, logps, touched, epochLosses>>

\* y = x**2
Pow ==
  /\ Stmt = "pow"
  /\ y' = [NoTensor EXCEPT !.val = Square(x.val), !.graph = TRUE]
  /\ pc' = Fall
  /\ UNCHANGED <<dataset, params, grad, built, model, optimizer, batch,
                 batchId, output, loss, e, dataiter, running_loss, printed,
                 hist, pending, cnt, nsteps, prevLoss, raised, ncalls,
                 criterion, x, z, logps, touched, epochLosses>>

\* z = y.mean()
MeanOfY ==
  /\ Stmt = "mean"
  /\ z' = [NoTensor EXCEPT !.val = <<Mean(y.val)>>, !.numel = Len(y.val),
                           !.graph = y.graph]
  /\ pc' = Fall
  /\ UNCHANGED <<dataset, params, grad, built, model, optimizer, batch,
                 batchId, output, loss, e, dataiter, running_loss, printed,
                 hist, pending, cnt, nsteps, prevLoss, raised, ncalls,
                 criterion, x, y, logps, touched, epochLosses>>

\* z.backward(): through mean and x**2 into x.grad; frees the graph
ZBackward ==
  /\ Stmt = "z_backward"
  /\ IF z.graph
     THEN /\ x' = AccumulateTensor(x, PowBackward(x.val, MeanBackward(z.numel)))
          /\ y' = [y EXCEPT !.graph = FALSE]
          /\ z' = [z EXCEPT !.graph = FALSE]
          /\ touched' = touched \cup {"x"}
          /\ pc' = Fall
          /\ UNCHANGED raised
     ELSE /\ raised' = "RuntimeError"
          /\ pc' = Done
          /\ UNCHANGED <<x, y, z, touched>>
  /\ UNCHANGED <<dataset, params, grad, built, model, optimizer, batch,
                 batchId, output, loss, e, dataiter, running_loss, printed,
                 hist, pending, cnt, nsteps, prevLoss, ncalls, criterion,
                 logps, epochLosses>>

\* with torch.no_grad(): logps = model(img): a forward pass that records no graph
Predict ==
  /\ Stmt = "predict"
  /\ logps' = [model |-> model, kind |-> OutputKind(model), x |-> batch.x,
               val |-> Linear(params[model], batch.x), graph |-> FALSE]
  /\ pc' = Fall
  /\ UNCHANGED <<dataset, params, grad, built, model, optimizer, batch,
                 batchId, output, loss, e, dataiter, running_loss, printed,
                 hist, pending, cnt, nsteps, prevLoss, raised, ncalls,
                 criterion, x, y, z, touched, epochLosses>>

\* ------------------------------------------------------ specifications
\* The notebook run from In[12], on the shuffled training set.
Init ==
  /\ pc = [cell |-> "In12", i |-> 1]
  /\ dataset = trainset
  /\ params = [m \in ModelIds |-> NoParams]
  /\ grad = [m \in ModelIds |-> NoGrad]
  /\ built = {}
  /\ model = "none"
  /\ optimizer = NoOptimizer
  /\ batch = NoBatch
  /\ batchId = 0
  /\ output = NoOutput
  /\ loss = NoLoss
  /\ e = 0
  /\ dataiter = {}
  /\ running_loss = 0
  /\ printed = <<>>
  /\ hist = <<>>
  /\ pending = [m \in ModelIds |-> <<>>]
  /\ cnt = [b \in 1..NumBatches |-> [op \in Ops |-> 0]]
  /\ nsteps = 0
  /\ prevLoss = -1
  /\ raised = "none"
  /\ ncalls = 0
  /\ criterion = "none"
  /\ x = NoTensor
  /\ y = NoTensor
  /\ z = NoTensor
  /\ logps = NoOutput
  /\ touched = {}
  /\ epochLosses = <<>>

Next ==
  \/ BuildModel
  \/ MakeOptimizer
  \/ NextBatch
  \/ Forward
  \/ ComputeLoss
  \/ Backward
  \/ ZeroGrad
  \/ OptimizerStep
  \/ ForEpoch
  \/ ResetRunningLoss
  \/ IterTrainloader
  \/ ForBatch
  \/ AddRunningLoss
  \/ PrintLoss
  \/ MakeCriterion
  \/ Predict

Spec == Init /\ [][Next]_vars

\* The training cell In[15] and the prediction cell In[16] run on a fresh
\* kernel, on the shuffled training set.
TrainingInit ==
  /\ pc = [cell |-> "In15", i |-> 1]
  /\ dataset = trainset
  /\ params = [m \in ModelIds |-> NoParams]
  /\ grad = [m \in ModelIds |-> NoGrad]
  /\ built = {}
  /\ model = "none"
  /\ optimizer = NoOptimizer
  /\ batch = NoBatch
  /\ batchId = 0
  /\ output = NoOutput
  /\ loss = NoLoss
  /\ e = 0
  /\ dataiter = {}
  /\ running_loss = 0
  /\ printed = <<>>
  /\ hist = <<>>
  /\ pending = [m \in ModelIds |-> <<>>]
  /\ cnt = [b \in 1..NumBatches |-> [op \in Ops |-> 0]]
  /\ nsteps = 0
  /\ prevLoss = -1
  /\ raised = "none"
  /\ ncalls = 0
  /\ criterion = "none"
  /\ x = NoTensor
  /\ y = NoTensor
  /\ z = NoTensor
  /\ logps = NoOutput
  /\ touched = {}
  /\ epochLosses = <<>>

TrainingNext ==
  \/ BuildModel
  \/ MakeCriterion
  \/ MakeOptimizer
  \/ ForEpoch
  \/ ResetRunningLoss
  \/ IterTrainloader
  \/ ForBatch
  \/ ZeroGrad
  \/ Forward
  \/ ComputeLoss
  \/ Backward
  \/ OptimizerStep
  \/ AddRunningLoss
  \/ PrintLoss
  \/ NextBatch
  \/ Predict

TrainingSpec == TrainingInit /\ [][TrainingNext]_vars

\* The same run under the interpreter's scheduling: a statement that can run
\* does run.
FairTrainingSpec == TrainingSpec /\ WF_vars(TrainingNext)

\* The whole notebook run from In[2], on a training set of one batch.
NotebookInit ==
  /\ pc = [cell |-> "In2", i |-> 1]
  /\ \E i \in 1..NumBatches : dataset = <<trainset[i]>>
  /\ params = [m \in ModelIds |-> NoParams]
  /\ grad = [m \in ModelIds |-> NoGrad]
  /\ built = {}
  /\ model = "none"
  /\ optimizer = NoOptimizer
  /\ batch = NoBatch
  /\ batchId = 0
  /\ output = NoOutput
  /\ loss = NoLoss
  /\ e = 0
  /\ dataiter = {}
  /\ running_loss = 0
  /\ printed = <<>>
  /\ hist = <<>>
  /\ pending = [m \in ModelIds |-> <<>>]
  /\ cnt = [b \in 1..1 |-> [op \in Ops |-> 0]]
  /\ nsteps = 0
  /\ prevLoss = -1
  /\ raised = "none"
  /\ ncalls = 0
  /\ criterion = "none"
  /\ x = NoTensor
  /\ y = NoTensor
  /\ z = NoTensor
  /\ logps = NoOutput
  /\ touched = {}
  /\ epochLosses = <<>>

NotebookNext ==
  \/ Next
  \/ Randn
  \/ Pow
  \/ MeanOfY
  \/ ZBackward

NotebookSpec == NotebookInit /\ [][NotebookNext]_vars

\* The training loop of In[15] on a loader of one fixed batch: the state after
\* the cell's model and optimizer are built.
FixedInit ==
  /\ pc = [cell |-> "loop", i |-> 1]
  /\ \E b \in FixedBatches : dataset = <<b>>
  /\ \E w \in InitWeights : params = [m \in ModelIds |-> IF m = "m15" THEN w ELSE NoParams]
  /\ grad = [m \in ModelIds |-> NoGrad]
  /\ built = {"m15"}
  /\ model = "m15"
  /\ optimizer = [model |-> "m15", lr |-> LrTrain]
  /\ batch = NoBatch
  /\ batchId = 0
  /\ output = NoOutput
  /\ loss = NoLoss
  /\ e = 0
  /\ dataiter = {}
  /\ running_loss = 0
  /\ printed = <<>>
  /\ hist = <<>>
  /\ pending = [m \in ModelIds |-> <<>>]
  /\ cnt = [b \in 1..1 |-> [op \in Ops |-> 0]]
  /\ nsteps = 0
  /\ prevLoss = -1
  /\ raised = "none"
  /\ ncalls = 0
  /\ criterion = "NLLLoss"
  /\ x = NoTensor
  /\ y = NoTensor
  /\ z = NoTensor
  /\ logps = NoOutput
  /\ touched = {}
  /\ epochLosses = <<>>

FixedNext ==
  \/ ForEpoch
  \/ ResetRunningLoss
  \/ IterTrainloader
  \/ ForBatch
  \/ ZeroGrad
  \/ Forward
  \/ ComputeLoss
  \/ Backward
  \/ OptimizerStep
  \/ AddRunningLoss
  \/ PrintLoss

FixedBatchSpec == FixedInit /\ [][FixedNext]_vars

\* The calls of the training step made in any order on the model of In[12]
\* and the optimizer of In[14]: what a caller may do who skips or repeats
\* lines of the step.  A call is made when the data it reads exists; the
\* optimizer does not step while a graph of the parameters is alive.
Call ==
  /\ pc = [cell |-> "calls", i |-> 0]
  /\ UNCHANGED <<criterion, x, y, z, logps, touched, epochLosses>>
  /\ ncalls < MaxCalls
  /\ \E i \in 1..Len(Calls) :
       /\ Calls[i] = "forward" => batchId # 0
       /\ Calls[i] = "criterion" => output.model # "none"
       /\ Calls[i] = "backward" => loss.model # "none"
       /\ Calls[i] = "optimizer_step" => ~output.graph /\ ~loss.graph
       /\ pc' = [cell |-> "calls", i |-> i]
  /\ ncalls' = ncalls + 1
  /\ UNCHANGED <<dataset, params, grad, built, model, optimizer, batch,
                 batchId, output, loss, e, dataiter, running_loss, printed,
                 hist, pending, cnt, nsteps, prevLoss, raised>>

CallInit ==
  /\ pc = [cell |-> "calls", i |-> 0]
  /\ dataset = trainset
  /\ \E w \in InitWeights : params = [m \in ModelIds |-> IF m = "m12" THEN w ELSE NoParams]
  /\ grad = [m \in ModelIds |-> NoGrad]
  /\ built = {"m12"}
  /\ model = "m12"
  /\ optimizer = [model |-> "m12", lr |-> LrDemo]
  /\ batch = NoBatch
  /\ batchId = 0
  /\ output = NoOutput
  /\ loss = NoLoss
  /\ e = 0
  /\ dataiter = {}
  /\ running_loss = 0
  /\ printed = <<>>
  /\ hist = <<>>
  /\ pending = [m \in ModelIds |-> <<>>]
  /\ cnt = [b \in 1..NumBatches |-> [op \in Ops |-> 0]]
  /\ nsteps = 0
  /\ prevLoss = -1
  /\ raised = "none"
  /\ ncalls = 0
  /\ criterion = "NLLLoss"
  /\ x = NoTensor
  /\ y = NoTensor
  /\ z = NoTensor
  /\ logps = NoOutput
  /\ touched = {}
  /\ epochLosses = <<>>

CallNext ==
  \/ Call
  \/ NextBatch
  \/ ZeroGrad
  \/ Forward
  \/ ComputeLoss
  \/ Backward
  \/ OptimizerStep

CallSpec == CallInit /\ [][CallNext]_vars

\* ------------------------------------------------------------- claims
\* The gradient of the loss of (images, labels) at the parameters p.
BatchGradient(p) ==
  [none |-> FALSE,
   weight |-> (p.weight * batch.x + p.bias - batch.y) * batch.x,
   bias |-> p.weight * batch.x + p.bias - batch.y]

\* C1: gradients are cleared before each backward pass: no model's parameters
\* take two backward passes without a zero_grad() between them, and whenever
\* optimizer.step() is about to run, the gradient accumulator of the
\* optimizer's parameters holds the gradient of the current batch's loss and
\* nothing of an earlier batch.
C1_ClearedBeforeBackward ==
  /\ \A m \in built : Len(pending[m]) <= 1
  /\ Stmt = "optimizer_step" =>
       grad[optimizer.model] = BatchGradient(params[optimizer.model])

\* C1 witness: a step of the training loop about to update, after earlier
\* steps have left gradients behind.
C1_Witness ==
  /\ Stmt = "optimizer_step"
  /\ pc.cell = "In15"
  /\ nsteps >= 1
  /\ grad[optimizer.model].bias # 0

StepOrder == <<"zero_grad", "forward", "criterion", "backward", "optimizer_step">>
IsPrefix(s, t) == Len(s) <= Len(t) /\ \A i \in 1..Len(s) : s[i] = t[i]

\* C2: a training step runs clear, forward, loss, backward, update in this
\* order, each once per batch: from the moment a batch is bound in the single
\* step or in the loop, the operations run on it are a prefix of that order,
\* and all five have run when the step ends (the loop adds to running_loss,
\* the update cell is left).
C2_StepOrder ==
  /\ \/ pc.cell = "step" /\ pc.i > 1
     \/ pc.cell = "update"
     \/ pc.cell = "In15"
     => IsPrefix(hist, StepOrder)
  /\ Stmt = "add_running_loss" => hist = StepOrder
  /\ pc = [cell |-> "In15", i |-> 1] => hist = StepOrder

\* C2 witness: the last batch of the last epoch has gone through its step.
C2_Witness ==
  /\ Stmt = "add_running_loss"
  /\ e = epochs
  /\ dataiter = {}

\* C3: between a zero_grad() and the next backward pass, the gradient of every
\* parameter the optimizer holds is empty or all zero.
C3_ZeroAfterClear ==
  optimizer.model # "none" /\ pending[optimizer.model] = <<>>
    => grad[optimizer.model] \in {NoGrad, ZeroTensor}

\* C3 witness: in the loop, a step has updated the parameters from a nonzero
\* gradient, the next step has cleared it and is about to run backward.
C3_Witness ==
  /\ Stmt = "backward"
  /\ pc.cell = "In15"
  /\ nsteps >= 1
  /\ prevLoss > 0
  /\ pending[optimizer.model] = <<>>

RECURSIVE SumWeight(_), SumBias(_)
SumWeight(gs) == IF gs = <<>> THEN 0 ELSE Head(gs).weight + SumWeight(Tail(gs))
SumBias(gs) == IF gs = <<>> THEN 0 ELSE Head(gs).bias + SumBias(Tail(gs))
Abs(n) == IF n >= 0 THEN n ELSE -n

\* old - lr * g, to the nearest representable number: the new value differs
\* from the exact one by at most half a unit.
IsUpdate(old, new, lr, g) == 2 * Abs(Scale * (old - new) - lr * g) <= Scale

\* C4: backward passes without a clear between them add up: the gradient of a
\* model's parameters is the sum of the gradients its backward passes have
\* computed since its last clear; a backward pass on a loss whose graph is
\* alive raises no error, however many went before; and the update uses the
\* sum, not the last pass's gradient.
C4_Additive ==
  /\ [](\A m \in built :
          pending[m] # <<>> =>
            /\ ~grad[m].none
            /\ grad[m].weight = SumWeight(pending[m])
            /\ grad[m].bias = SumBias(pending[m]))
  /\ [][/\ Stmt = "backward" /\ loss.graph => raised' = "none"
        /\ Stmt = "optimizer_step" /\ pending[optimizer.model] # <<>> =>
             /\ IsUpdate(params[optimizer.model].weight,
                         params'[optimizer.model].weight, optimizer.lr,
                         SumWeight(pending[optimizer.model]))
             /\ IsUpdate(params[optimizer.model].bias,
                         params'[optimizer.model].bias, optimizer.lr,
                         SumBias(pending[optimizer.model]))]_vars

\* C4 witness: two backward passes on different batches without a clear, the
\* accumulated gradient differing from the last pass's by several units of
\* update, and the optimizer about to step.
C4_Witness ==
  /\ Stmt = "optimizer_step"
  /\ Len(pending[optimizer.model]) >= 2
  /\ pending[optimizer.model][1] # pending[optimizer.model][2]
  /\ Abs(optimizer.lr * (grad[optimizer.model].bias
        - pending[optimizer.model][Len(pending[optimizer.model])].bias))
       > 2 * Scale

\* The learning rate the optimizer of the running cell was constructed with.
LrOfCell == IF pc.cell = "update" THEN LrDemo ELSE LrTrain

\* C5: optimizer.step() changes each parameter to old - lr * gradient, with
\* the gradient its accumulator holds when the step runs and the learning
\* rate of the optimizer's construction: 0.01 in the single-step demo, 0.003
\* in the training loop.
C5_SgdUpdate ==
  [][Stmt = "optimizer_step" =>
       /\ ~grad[optimizer.model].none
       /\ IsUpdate(params[optimizer.model].weight,
                   params'[optimizer.model].weight, LrOfCell,
                   grad[optimizer.model].weight)
       /\ IsUpdate(params[optimizer.model].bias,
                   params'[optimizer.model].bias, LrOfCell,
                   grad[optimizer.model].bias)]_vars

\* C5 witness: a step of the loop about to run on a gradient large enough for
\* the two learning rates to give different updates.
C5_Witness ==
  /\ Stmt = "optimizer_step"
  /\ pc.cell = "In15"
  /\ Abs((LrDemo - LrTrain) * grad[optimizer.model].bias) > 2 * Scale

\* C6: in each of the epochs every batch of the loader goes through one
\* training step, no batch twice and none skipped: per epoch each batch sees
\* each operation at most once, and exactly once when the epoch's loss is
\* printed; the loop ends after epochs * len(trainloader) optimizer steps.
C6_EveryBatchOnce ==
  /\ \A b \in 1..Len(dataset) : \A op \in Ops : cnt[b][op] <= 1
  /\ Stmt = "print_loss" =>
       \A b \in 1..Len(dataset) : \A op \in Ops : cnt[b][op] = 1
  /\ nsteps <= epochs * Len(dataset)
  /\ pc = Done => nsteps = epochs * Len(dataset) /\ e = epochs

\* C6 witness: the notebook has run to its end, five losses printed.
C6_Witness ==
  /\ pc = Done
  /\ Len(printed) = epochs
  /\ nsteps > 0

\* C7: the optimizer holds the parameters of the model it trains: a step
\* updates the parameters of the model bound to `model`, whose forward pass
\* produced the loss, and of no other model; once In[15] has rebound `model`
\* and `optimizer`, the parameters of the model of In[12] never change again.
C7_OptimizerHoldsModel ==
  [][/\ Stmt = "optimizer_step" =>
          /\ optimizer.model = model
          /\ loss.model = model
          /\ \A m \in ModelIds \ {model} : params'[m] = params[m]
     /\ "m15" \in built => params'["m12"] = params["m12"]]_vars

\* C7 witness: a step of the loop about to run, both models built, the model
\* of In[12] holding the parameters and the gradient its demo step left.
C7_Witness ==
  /\ Stmt = "optimizer_step"
  /\ built = {"m12", "m15"}
  /\ model = "m15"
  /\ ~grad["m12"].none
  /\ params["m12"] # params["m15"]

Curvature(b) == b.x * b.x + 1

\* The learning rate is small against the surface: lr * curvature < 2.
SmallSteps(b) == optimizer.lr * Curvature(b) < 2 * Scale

\* C9 as stated: on a fixed batch whose loss surface is convex (every batch
\* of the model is), the loss of a training pass is never greater than the
\* loss of the pass before.
C9_Monotone == prevLoss >= 0 => loss.val <= prevLoss

\* C9 as amended: the same, for a learning rate small against the curvature
\* of the surface (lr * curvature < 2).
C9_MonotoneSmallSteps ==
  (\A i \in 1..Len(dataset) : SmallSteps(dataset[i])) => C9_Monotone

\* C9 witness: on a fixed batch with small steps, the third pass or a later
\* one has computed a loss strictly below the loss of the pass before.
C9_Witness ==
  /\ \A i \in 1..Len(dataset) : SmallSteps(dataset[i])
  /\ nsteps >= 2
  /\ prevLoss >= 0
  /\ loss.val < prevLoss

\* The input a loss function expects: nn.CrossEntropyLoss takes raw logits
\* (it applies log-softmax itself), nn.NLLLoss takes log-probabilities.
Expects(c, k) ==
  \/ c = "CrossEntropyLoss" /\ k = "logits"
  \/ c = "NLLLoss" /\ k = "log_probabilities"

\* C11: every loss the notebook computes pairs the loss function with the
\* kind of output it expects: nn.CrossEntropyLoss with the raw logits of a
\* model that has no softmax layer, nn.NLLLoss with the output of a model
\* whose last layer is LogSoftmax; no cell pairs a criterion with the other
\* kind of output.
C11_CriterionMatchesOutput ==
  /\ Stmt = "criterion" => Expects(criterion, output.kind)
  /\ loss.model # "none" =>
       /\ Expects(loss.criterion, loss.input)
       /\ loss.criterion = "CrossEntropyLoss" => LastLayer(loss.model) = "Linear"
       /\ loss.criterion = "NLLLoss" => LastLayer(loss.model) = "LogSoftmax"

\* C11 witness: In[2] has computed its cross-entropy loss on logits, and the
\* training loop has computed a negative log-likelihood loss on the output of
\* its LogSoftmax model.
C11_Witness ==
  /\ "m2" \in built
  /\ Stmt = "backward"
  /\ pc.cell = "In15"
  /\ loss.criterion = "NLLLoss"
  /\ loss.input = "log_probabilities"
  /\ loss.model = "m15"

\* C12: before any backward pass has run on it, the gradient of a tensor or
\* of a parameter is empty (None): x.grad once x, y and z are built and until
\* z.backward() runs, and the gradient of a freshly constructed model until
\* its first loss.backward(), although a forward pass and a loss have been
\* computed on it.
C12_EmptyBeforeBackward ==
  /\ x.val # <<>> /\ "x" \notin touched => x.none
  /\ \A m \in built : m \notin touched => grad[m].none

\* C12 witness: In[13] is about to run the first backward pass on the model
\* of In[12], whose forward pass and loss have been computed, and x has been
\* through its own backward pass before.
C12_Witness ==
  /\ pc.cell = "In13"
  /\ Stmt = "backward"
  /\ loss.model = "m12"
  /\ loss.graph
  /\ loss.val # 0
  /\ "m12" \notin touched
  /\ "x" \in touched

\* x / 2, element by element.
Half(t) == [i \in 1..Len(t) |-> RoundDiv(t[i], 2)]

\* C13: for a 2x2 tensor x with y = x**2 and z = y.mean(), one z.backward()
\* from an empty gradient leaves x.grad equal to x/2 in every element, for
\* every x.
C13_GradIsHalfX ==
  "x" \in touched => ~x.none /\ Len(x.grad) = 4 /\ x.grad = Half(x.val)

\* C13 witness: z.backward() has run on a tensor with a negative and an odd
\* element.
C13_Witness ==
  /\ "x" \in touched
  /\ ~z.graph
  /\ \E i \in 1..Len(x.val) : x.val[i] < 0
  /\ \E i \in 1..Len(x.val) : x.val[i] % 2 = 1

\* The gradient of the loss of batch b at the parameters p.
GradientOn(p, b) == Gradient(Linear(p, b.x) - b.y, b.x)

\* C14: in the single-step demo run in notebook order, the gradient that the
\* loss.backward() of In[13] left is discarded by optimizer.zero_grad() before
\* the demo's own backward pass: the gradient the demo prints and the update
\* the next cell applies come from the demo's batch alone, not from the sum
\* of the two backward passes.
C14_DemoDiscardsEarlierGradient ==
  /\ [](/\ pc.cell = "step" /\ Stmt \in {"forward", "criterion", "backward"}
            => grad["m12"] \in {NoGrad, ZeroTensor}
        /\ pc.cell = "update"
            => /\ ~grad["m12"].none
               /\ grad["m12"].weight = GradientOn(params["m12"], batch).weight
               /\ grad["m12"].bias = GradientOn(params["m12"], batch).bias)
  /\ [][pc.cell = "update" =>
          /\ IsUpdate(params["m12"].weight, params'["m12"].weight, LrDemo,
                      GradientOn(params["m12"], batch).weight)
          /\ IsUpdate(params["m12"].bias, params'["m12"].bias, LrDemo,
                      GradientOn(params["m12"], batch).bias)]_vars

\* C14 witness: the demo has run its backward pass and the update is about
\* to run; whichever batch In[12] drew, the gradient In[13] left was not
\* zero, so the sum of the two passes differs from the demo's gradient.
C14_Witness ==
  /\ pc.cell = "update"
  /\ Stmt = "optimizer_step"
  /\ "m12" \in touched
  /\ \A i \in 1..Len(dataset) :
       /\ GradientOn(params["m12"], dataset[i]).weight # 0
       /\ GradientOn(params["m12"], dataset[i]).bias # 0

\* C15: parameter values change only in optimizer.step(): zero_grad(), the
\* forward pass, the loss computation and backward() leave the values of
\* every parameter as they are; backward() changes, of parameters and
\* gradients, only the gradient of the model that produced the loss; and
\* optimizer.step() leaves every gradient as it is.
C15_OnlyStepChangesParameters ==
  [][/\ Stmt \in {"zero_grad", "forward", "criterion", "backward"} =>
          params' = params
     /\ Stmt # "optimizer_step" => \A m \in built : params'[m] = params[m]
     /\ Stmt = "backward" =>
          \A m \in ModelIds \ {loss.model} : grad'[m] = grad[m]
     /\ Stmt = "optimizer_step" => grad' = grad]_vars

\* C15 witness: a step of the loop is about to update from a gradient large
\* enough to move both parameters, the model of the demo standing by with
\* parameters and gradient of its own.
C15_Witness ==
  /\ Stmt = "optimizer_step"
  /\ pc.cell = "In15"
  /\ e >= 2
  /\ Abs(optimizer.lr * grad[optimizer.model].weight) > Scale
  /\ Abs(optimizer.lr * grad[optimizer.model].bias) > Scale
  /\ ~grad["m12"].none

\* C16: running_loss is reset to 0 at the start of every epoch, and when the
\* epoch's line is printed it is the sum of the scalar losses of exactly that
\* epoch's batches, nothing carried over from an earlier epoch; the line
\* gives that sum over the number of batches of trainloader.
C16_RunningLossPerEpoch ==
  /\ Stmt = "iter_trainloader" => running_loss = 0 /\ epochLosses = <<>>
  /\ Stmt \in {"for_batch", "print_loss"} => running_loss = SumOf(epochLosses)
  /\ Stmt = "print_loss" => Len(epochLosses) = Len(dataset)
  /\ \A k \in 1..Len(printed) : printed[k].n = Len(dataset)
  /\ printed # <<>> /\ (Stmt = "for_epoch" \/ pc.cell \in {"In16", "done"}) =>
       printed[Len(printed)].sum = SumOf(epochLosses)

\* C16 witness: a later epoch's line is about to be printed, the epochs
\* before having printed nonzero sums different from this one's.
C16_Witness ==
  /\ Stmt = "print_loss"
  /\ e >= 3
  /\ running_loss > 0
  /\ \A k \in 1..Len(printed) :
       printed[k].sum > 0 /\ printed[k].sum # running_loss

\* The statements of an epoch's body, from running_loss = 0 to the else branch.
InEpoch ==
  /\ pc.cell = "In15"
  /\ pc.i >= IndexOf("In15", "reset_running_loss")

\* C17: the training loop terminates after exactly 5 epochs, and the else
\* branch of the inner loop runs at the end of every epoch: one loss line per
\* epoch, printed after the last batch of the epoch and before the first
\* batch of the next.
C17_FiveEpochsOneLineEach ==
  /\ [](/\ e <= epochs
        /\ InEpoch => Len(printed) = e - 1
        /\ Stmt = "print_loss" =>
             /\ dataiter = {}
             /\ Len(epochLosses) = Len(dataset)
        /\ Stmt = "for_epoch" => Len(printed) = e
        /\ pc.cell \in {"In16", "done"} => e = epochs /\ Len(printed) = epochs)
  /\ <>(pc.cell \in {"In16", "done"})

\* C17 witness: the loop has been left after its fifth epoch, five lines
\* printed, each for an epoch of all the loader's batches.
C17_Witness ==
  /\ pc = [cell |-> "In16", i |-> 1]
  /\ e = epochs
  /\ Len(printed) = epochs
  /\ nsteps = epochs * Len(dataset)
  /\ Len(dataset) >= 2

\* C18: the prediction cell In[16] evaluates the model inside torch.no_grad()
\* and runs no backward pass and no optimizer step: it records no graph and
\* leaves every parameter value and every gradient of the trained model as
\* the training loop left them.
C18_PredictionLeavesModelAlone ==
  [][pc.cell = "In16" =>
       /\ Stmt \notin {"zero_grad", "backward", "optimizer_step"}
       /\ params' = params
       /\ grad' = grad
       /\ pending' = pending
       /\ ~logps'.graph]_vars

\* C18 witness: the prediction has been made on the trained model, which
\* still holds the nonzero gradient of the last training pass.
C18_Witness ==
  /\ pc = Done
  /\ raised = "none"
  /\ logps.model = "m15"
  /\ logps.kind = "log_probabilities"
  /\ nsteps = epochs * Len(dataset)
  /\ ~grad["m15"].none
  /\ grad["m15"].weight # 0
  /\ params["m15"] \notin InitWeights
====
